---- MODULE Spec2Model ----
(***************************************************************************)
(* Asset-pipeline utilities of QuaternionEngine:                           *)
(*   texture_compression.py  role inference, target policy, two-stage      *)
(*                           transcode jobs on a worker pool               *)
(*   compile_shaders.py      sequential GLSL -> SPIR-V batch               *)
(* Text is modelled as sequences of one-character strings.                 *)
(***************************************************************************)
EXTENDS Integers, Sequences, FiniteSets, TLC

VARIABLES
    \* suffix matcher (build_suffix_regex / detect_role_by_suffix)
    spc,            \* position: "start" | "done"
    suffix_csv,     \* opts.suffix_<role>: role -> CSV text
    stem,           \* the stem handed to detect_role_by_suffix
    by_suffix,      \* its return value (NoRole models None)
    \* role resolution (parse_gltf_roles / main.decide_role_for_path)
    gpc,            \* position: "start" | "parsed" | "resolved"
    gltf,           \* the --gltf argument and the document behind it
    gltf_roles,     \* dict uri -> role, in insertion order: Seq of [uri, role]
    img,            \* the asset path handed to decide_role_for_path
    role,           \* its return value
    \* target policy (has_meaningful_alpha / decide_targets)
    tpc,            \* position: "start" | "done"
    trole,          \* decide_targets' role argument
    albedo_target,  \* its albedo_target argument
    image,          \* what decoding img_path yields
    PIL_OK,         \* whether the imaging library was importable
    target,         \* its return value: [bc, oetf]
    \* shader batch (compile_shaders.main)
    shpc,           \* position: "start" | "compile" | "exited"
    shader_dir,     \* [exists, entries]: the directory and what lies under it
    glslc_env,      \* [user, env, sdk, path]: where a compiler can be found
    glslc,          \* find_glslc's return value
    sources,        \* collect_sources' return value
    next_src,       \* index of the source the loop compiles next
    failed,         \* the loop's failure counter
    invocations,    \* the compiler runs so far: Seq of [src, rc]
    sh_exit,        \* [status, how] once the process has ended
    \* texture batch (texture_compression.main / process_one)
    bpc,            \* main's position: "start" | "submit" | "collect" | "exited"
    argv,           \* command line: [albedo_target, keep_temp, dry_run, jobs]
    tools,          \* [toktx, ktx]: whether each tool is on PATH
    input,          \* [kind, files]: --input, a directory tree or one file
    opts,           \* parse_args' result
    rx,             \* main's rx: role -> compiled suffix pattern
    img_files,      \* the discovered images, in discovery order
    jobs,           \* the submitted futures, in submission order
    fs,             \* files under the output directory: path -> content
    acc,            \* file operations the jobs performed: {[job, file, op]}
    reported,       \* the [OK]/[ERR] lines printed: Seq of [job, rc]
    any_err,        \* main's any_err flag
    exit_st         \* [status, how] once the process has ended

suffixVars == <<spc, stem, by_suffix>>
gltfVars == <<gpc, gltf, gltf_roles, img, role>>
targetVars == <<tpc, trole, albedo_target, image, PIL_OK, target>>
shaderVars == <<shpc, shader_dir, glslc_env, glslc, sources, next_src, failed,
                invocations, sh_exit>>
batchVars == <<bpc, argv, tools, input, opts, rx, img_files, jobs, fs, acc, reported,
               any_err, exit_st>>
vars == <<suffixVars, suffix_csv, gltfVars, targetVars, shaderVars, batchVars>>

----------------------------------------------------------------------------
(* Text helpers *)

NoRole == "None"

\* dict order of rx (and of DEFAULT_SUFFIX)
RoleOrder == <<"albedo", "mr", "normal", "occlusion", "emissive">>
Roles == {RoleOrder[i] : i \in 1..Len(RoleOrder)}

\* str.lower() on ASCII letters
LowerTable ==
    ("A" :> "a") @@ ("B" :> "b") @@ ("C" :> "c") @@ ("D" :> "d") @@ ("E" :> "e") @@
    ("F" :> "f") @@ ("G" :> "g") @@ ("H" :> "h") @@ ("I" :> "i") @@ ("J" :> "j") @@
    ("K" :> "k") @@ ("L" :> "l") @@ ("M" :> "m") @@ ("N" :> "n") @@ ("O" :> "o") @@
    ("P" :> "p") @@ ("Q" :> "q") @@ ("R" :> "r") @@ ("S" :> "s") @@ ("T" :> "t") @@
    ("U" :> "u") @@ ("V" :> "v") @@ ("W" :> "w") @@ ("X" :> "x") @@ ("Y" :> "y") @@
    ("Z" :> "z")

Lower(c) == IF c \in DOMAIN LowerTable THEN LowerTable[c] ELSE c

LowerStr(s) == [i \in 1..Len(s) |-> Lower(s[i])]

\* str.strip(): leading and trailing blanks removed
RECURSIVE LStrip(_)
LStrip(s) == IF s # <<>> /\ Head(s) = " " THEN LStrip(Tail(s)) ELSE s

RECURSIVE RStrip(_)
RStrip(s) ==
    IF s # <<>> /\ s[Len(s)] = " " THEN RStrip(SubSeq(s, 1, Len(s) - 1)) ELSE s

Strip(s) == RStrip(LStrip(s))

\* str.split(","): the fields between commas, empty fields kept
RECURSIVE SplitComma(_, _)
SplitComma(s, cur) ==
    IF s = <<>> THEN <<cur>>
    ELSE IF Head(s) = "," THEN <<cur>> \o SplitComma(Tail(s), <<>>)
    ELSE SplitComma(Tail(s), Append(cur, Head(s)))

\* [s.strip() for s in csv.split(",") if s.strip()]
ParseSuffixCsv(csv) ==
    LET parts == SplitComma(csv, <<>>)
    IN  SelectSeq([i \in 1..Len(parts) |-> Strip(parts[i])], LAMBDA t : t # <<>>)

----------------------------------------------------------------------------
(* Suffix-based role matcher *)

Separators == {"_", "-", "."}

\* A compiled pattern (^|[_\-.])(alt)$ is kept as the set of its alternatives.
\* "|".join of an empty list is the empty text: one alternative, the empty one.
build_suffix_regex(tokens) ==
    IF tokens = <<>> THEN {<<>>}
    ELSE {LowerStr(tokens[i]) : i \in 1..Len(tokens)}

\* Positions where $ matches: the end, and just before a final newline.
DollarPositions(s) ==
    {Len(s)} \cup (IF Len(s) >= 1 /\ s[Len(s)] = "\n" THEN {Len(s) - 1} ELSE {})

\* r.search(s) under re.IGNORECASE: some alternative t occupies s[b+1..e], where
\* $ matches at e, and b is the start of the text or s[b] is a separator.
RegexSearch(alts, s) ==
    \E t \in alts : \E e \in DollarPositions(s) :
        LET b == e - Len(t)
        IN  /\ b >= 0
            /\ \A i \in 1..Len(t) : Lower(s[b + i]) = Lower(t[i])
            /\ (b = 0 \/ s[b] \in Separators)

RECURSIVE FirstMatch(_, _, _)
FirstMatch(s, pats, i) ==
    IF i > Len(RoleOrder) THEN NoRole
    ELSE IF RegexSearch(pats[RoleOrder[i]], s) THEN RoleOrder[i]
    ELSE FirstMatch(s, pats, i + 1)

detect_role_by_suffix(st, pats) == FirstMatch(LowerStr(st), pats, 1)

\* main: rx = {role: build_suffix_regex(parsed CSV)}
BuildRx(csv) == [r \in Roles |-> build_suffix_regex(ParseSuffixCsv(csv[r]))]

DEFAULT_SUFFIX_CSV ==
    [albedo |->
        <<"_","a","l","b","e","d","o",",","_","b","a","s","e","c","o","l","o","r",",",
          "_","b","a","s","e","_","c","o","l","o","u","r",",",
          "_","b","a","s","e","_","c","o","l","o","r",",","_","b","a","s","e",",",
          "b","a","s","e","C","o","l","o","r",",","B","a","s","e","C","o","l","o","r">>,
     mr |->
        <<"_","m","r",",","_","o","r","m",",","_","m","e","t","a","l","r","o","u","g","h",",",
          "_","m","e","t","a","l","l","i","c","r","o","u","g","h","n","e","s","s",",",
          "m","e","t","a","l","l","i","c","R","o","u","g","h","n","e","s","s",",",
          "M","e","t","a","l","l","i","c",",","M","e","t","a","l","n","e","s","s">>,
     normal |->
        <<"_","n","o","r","m","a","l",",","_","n","o","r","m",",","_","n","r","m",",",
          "_","n","o","r","m","a","l","g","l",",","N","o","r","m","a","l">>,
     occlusion |->
        <<"_","o","c","c","l","u","s","i","o","n",",","_","o","c","c",",","_","a","o">>,
     emissive |->
        <<"_","e","m","i","s","s","i","v","e",",","_","e","m","i","s","s","i","o","n",",",
          "_","e","m","i","t">>]

----------------------------------------------------------------------------
(* Material-graph hints: parse_gltf_roles *)

NoUri == <<"(no uri)">>     \* images[i] without a "uri" key
NoSource == <<>>            \* textures[i] without a "source" key; <<n>> is source n
NoIndex == <<>>             \* a slot that is absent or has no "index"; <<n>> is index n
NoDoc == [kind |-> "none", images |-> <<>>, textures |-> <<>>, materials |-> <<>>]

\* The five slots in the order the loop body reads them, with the role each proposes
SlotOrder ==
    << [slot |-> "baseColorTexture",         role |-> "albedo"],
       [slot |-> "metallicRoughnessTexture", role |-> "mr"],
       [slot |-> "normalTexture",            role |-> "normal"],
       [slot |-> "occlusionTexture",         role |-> "occlusion"],
       [slot |-> "emissiveTexture",          role |-> "emissive"] >>
Slots == {SlotOrder[i].slot : i \in 1..Len(SlotOrder)}

prio == [albedo |-> 3, emissive |-> 3, mr |-> 2, normal |-> 4, occlusion |-> 2]
PrioOf(r) == IF r \in DOMAIN prio THEN prio[r] ELSE 0

\* texture index -> image uri (indices are 0-based as in the document)
TexToUri(doc) ==
    LET ok(i) ==
            LET src == doc.textures[i + 1]
            IN  /\ src # NoSource
                /\ 0 <= src[1] /\ src[1] < Len(doc.images)
                /\ doc.images[src[1] + 1] # NoUri
                /\ doc.images[src[1] + 1] # <<>>
    IN  [i \in {j \in 0..(Len(doc.textures) - 1) : ok(j)} |->
            doc.images[doc.textures[i + 1][1] + 1]]

Keys(rs) == {rs[i].uri : i \in 1..Len(rs)}
Get(rs, u) == rs[CHOOSE i \in 1..Len(rs) : rs[i].uri = u].role

\* mark(uri, role): a new key is appended; an existing key keeps its position and
\* takes the new role only when its priority is strictly greater
mark_overwrite(rs, u, r) ==
    IF u \in {NoUri, <<>>} THEN rs
    ELSE IF u \notin Keys(rs) THEN Append(rs, [uri |-> u, role |-> r])
    ELSE [i \in 1..Len(rs) |-> IF rs[i].uri = u THEN [uri |-> u, role |-> r] ELSE rs[i]]

mark(rs, u, r) ==
    IF u \in {NoUri, <<>>} THEN rs
    ELSE IF u \notin Keys(rs) THEN Append(rs, [uri |-> u, role |-> r])
    ELSE IF PrioOf(r) > PrioOf(Get(rs, u))
         THEN [i \in 1..Len(rs) |->
                 IF rs[i].uri = u THEN [uri |-> u, role |-> r] ELSE rs[i]]
         ELSE rs

\* The (uri, role) proposals of one material, slot by slot
RECURSIVE MaterialProposals(_, _, _)
MaterialProposals(mat, t2u, k) ==
    IF k > Len(SlotOrder) THEN <<>>
    ELSE LET idx == mat[SlotOrder[k].slot]
             here == IF idx # NoIndex /\ idx[1] \in DOMAIN t2u
                     THEN << [uri |-> t2u[idx[1]], role |-> SlotOrder[k].role] >>
                     ELSE <<>>
         IN  here \o MaterialProposals(mat, t2u, k + 1)

\* ... of the whole materials list, in document order
RECURSIVE Proposals(_, _, _)
Proposals(mats, t2u, m) ==
    IF m > Len(mats) THEN <<>>
    ELSE MaterialProposals(mats[m], t2u, 1) \o Proposals(mats, t2u, m + 1)

RECURSIVE MergeAll(_, _)
MergeAll(rs, props) ==
    IF props = <<>> THEN rs
    ELSE MergeAll(mark(rs, Head(props).uri, Head(props).role), Tail(props))

DocProposals(doc) == Proposals(doc.materials, TexToUri(doc), 1)

parse_gltf_roles(doc) ==
    IF doc.kind # "gltf" THEN <<>>      \* path missing, or not a .gltf file
    ELSE MergeAll(<<>>, DocProposals(doc))

----------------------------------------------------------------------------
(* Role resolver: main.decide_role_for_path *)

\* Path(x).name: the text after the last "/"
RECURSIVE LastIndexOf(_, _, _)
LastIndexOf(s, c, i) ==
    IF i = 0 THEN 0 ELSE IF s[i] = c THEN i ELSE LastIndexOf(s, c, i - 1)

PathName(p) == SubSeq(p, LastIndexOf(p, "/", Len(p)) + 1, Len(p))

\* Path(x).stem: the name without its last suffix; a dot that leads or ends the
\* name starts no suffix
PathStem(p) ==
    LET n == PathName(p)
        d == LastIndexOf(n, ".", Len(n))
    IN  IF d > 1 /\ d < Len(n) THEN SubSeq(n, 1, d - 1) ELSE n

RECURSIVE FirstHint(_, _, _)
FirstHint(rs, p, i) ==
    IF i > Len(rs) THEN NoRole
    ELSE IF LowerStr(PathName(rs[i].uri)) = LowerStr(PathName(p)) THEN rs[i].role
    ELSE FirstHint(rs, p, i + 1)

decide_role_suffix_first(p, rs, pats) ==
    LET s == detect_role_by_suffix(PathStem(p), pats)
        h == FirstHint(rs, p, 1)
    IN  IF s # NoRole THEN s ELSE IF h # NoRole THEN h ELSE "albedo"

decide_role_for_path(p, rs, pats) ==
    LET h == FirstHint(rs, p, 1)
        s == detect_role_by_suffix(PathStem(p), pats)
    IN  IF h # NoRole THEN h ELSE IF s # NoRole THEN s ELSE "albedo"

----------------------------------------------------------------------------
(* Alpha probe and compression target policy *)

Opaque == <<255, 255>>
NoImage == [decodable |-> FALSE, bandA |-> FALSE, transparency |-> FALSE, alpha |-> Opaque]

\* has_meaningful_alpha: False without the imaging library or when decoding
\* fails; otherwise whether the image has an alpha band or transparency info and
\* the alpha extrema are not (255, 255)
has_meaningful_alpha(im, pil_ok) ==
    IF ~pil_ok THEN FALSE
    ELSE IF ~im.decodable THEN FALSE
    ELSE IF im.bandA \/ im.transparency THEN im.alpha # Opaque
    ELSE FALSE

decide_targets_emissive_linear(r, at, im, pil_ok) ==
    IF r = "normal" THEN [bc |-> "bc5", oetf |-> "linear"]
    ELSE IF r \in {"mr", "occlusion", "emissive"} THEN [bc |-> "bc7", oetf |-> "linear"]
    ELSE IF at = "auto"
         THEN IF has_meaningful_alpha(im, pil_ok)
              THEN [bc |-> "bc3", oetf |-> "srgb"]
              ELSE [bc |-> "bc1", oetf |-> "srgb"]
    ELSE IF at \in {"bc1", "bc3", "bc7"} THEN [bc |-> at, oetf |-> "srgb"]
    ELSE [bc |-> "bc7", oetf |-> "srgb"]

decide_targets(r, at, im, pil_ok) ==
    IF r = "normal" THEN [bc |-> "bc5", oetf |-> "linear"]
    ELSE IF r = "mr" THEN [bc |-> "bc7", oetf |-> "linear"]
    ELSE IF r = "occlusion" THEN [bc |-> "bc7", oetf |-> "linear"]
    ELSE IF at = "auto"
         THEN IF has_meaningful_alpha(im, pil_ok)
              THEN [bc |-> "bc3", oetf |-> "srgb"]
              ELSE [bc |-> "bc1", oetf |-> "srgb"]
    ELSE IF at \in {"bc1", "bc3", "bc7"} THEN [bc |-> at, oetf |-> "srgb"]
    ELSE [bc |-> "bc7", oetf |-> "srgb"]

NoTarget == [bc |-> "None", oetf |-> "None"]

----------------------------------------------------------------------------
(* Shader batch: compile_shaders.py *)

\* A path is the sequence of its components, each a text.
SHADER_EXTS ==
    { <<".","f","r","a","g">>, <<".","v","e","r","t">>, <<".","c","o","m","p">>,
      <<".","g","e","o","m">>, <<".","t","e","s","c">>, <<".","t","e","s","e">>,
      <<".","m","e","s","h">>, <<".","t","a","s","k">>,
      <<".","r","g","e","n">>, <<".","r","i","n","t">>, <<".","r","a","h","i","t">>,
      <<".","r","c","h","i","t">>, <<".","r","m","i","s","s">>,
      <<".","r","c","a","l","l">> }

\* the characters of the model's texts in code-point order
Ascii ==
    << "-", ".", "/", "0", "1", "2", "3", "4", "5", "6", "7", "8", "9",
       "A", "B", "C", "D", "E", "F", "G", "H", "I", "J", "K", "L", "M",
       "N", "O", "P", "Q", "R", "S", "T", "U", "V", "W", "X", "Y", "Z",
       "_", "a", "b", "c", "d", "e", "f", "g", "h", "i", "j", "k", "l",
       "m", "n", "o", "p", "q", "r", "s", "t", "u", "v", "w", "x", "y",
       "z" >>

CharRank(c) == CHOOSE i \in 1..Len(Ascii) : Ascii[i] = c

\* str < str
RECURSIVE TextLess(_, _)
TextLess(a, b) ==
    IF b = <<>> THEN FALSE
    ELSE IF a = <<>> THEN TRUE
    ELSE IF Head(a) = Head(b) THEN TextLess(Tail(a), Tail(b))
    ELSE CharRank(Head(a)) < CharRank(Head(b))

\* Path < Path: the component lists compared
RECURSIVE PathLess(_, _)
PathLess(a, b) ==
    IF b = <<>> THEN FALSE
    ELSE IF a = <<>> THEN TRUE
    ELSE IF Head(a) = Head(b) THEN PathLess(Tail(a), Tail(b))
    ELSE TextLess(Head(a), Head(b))

\* sorted(S)
RECURSIVE Sorted(_)
Sorted(S) ==
    IF S = {} THEN <<>>
    ELSE LET least == CHOOSE x \in S : \A y \in S \ {x} : PathLess(x, y)
         IN  <<least>> \o Sorted(S \ {least})

\* Path.suffix of the last component
Suffix(path) ==
    LET n == path[Len(path)]
        d == LastIndexOf(n, ".", Len(n))
    IN  IF d > 1 /\ d < Len(n) THEN SubSeq(n, d, Len(n)) ELSE <<>>

\* sorted([p for p in shader_dir.rglob("*") if p.is_file() and suffix in SHADER_EXTS])
collect_sources(dir) ==
    Sorted({e.path : e \in {x \in dir.entries :
                x.is_file /\ LowerStr(Suffix(x.path)) \in SHADER_EXTS}})

\* find_glslc: the --glslc value, else $GLSLC, else a candidate under $VULKAN_SDK
\* that exists, else glslc on PATH; "exit" models sys.exit(message).  A value
\* taken from --glslc or $GLSLC is returned unchecked.
find_glslc(env) ==
    IF env.user # "unset" THEN [found |-> TRUE, launchable |-> env.user = "good"]
    ELSE IF env.env # "unset" THEN [found |-> TRUE, launchable |-> env.env = "good"]
    ELSE IF env.sdk THEN [found |-> TRUE, launchable |-> TRUE]
    ELSE IF env.path THEN [found |-> TRUE, launchable |-> TRUE]
    ELSE [found |-> FALSE, launchable |-> FALSE]

NoGlslc == [found |-> FALSE, launchable |-> FALSE]
Running == [status |-> 0, how |-> "running"]

\* main's last lines: return 1 if failed else 0
ShaderReturnIgnoresFailures(n) == 0

ShaderReturn(n) == IF n # 0 THEN 1 ELSE 0

----------------------------------------------------------------------------
(* Texture batch: texture_compression.main and process_one *)

SUPPORTED_IMAGE_EXTS ==
    { <<".","p","n","g">>, <<".","j","p","g">>, <<".","j","p","e","g">>,
      <<".","t","g","a">>, <<".","t","i","f">>, <<".","t","i","f","f">> }

\* --albedo-target default
albedo_target_default_auto == "auto"

albedo_target_default == "bc7"

\* parse_args: an option that is not given takes its default
parse_args(av) ==
    [albedo_target |-> IF av.albedo_target = "unset" THEN albedo_target_default
                       ELSE av.albedo_target,
     keep_temp |-> av.keep_temp,
     dry_run |-> av.dry_run,
     jobs |-> av.jobs]

EndsWith(s, t) == Len(s) >= Len(t) /\ SubSeq(s, Len(s) - Len(t) + 1, Len(s)) = t

\* Path.suffix of a path given as one text
TextSuffix(p) ==
    LET n == PathName(p)
        d == LastIndexOf(n, ".", Len(n))
    IN  IF d > 1 /\ d < Len(n) THEN SubSeq(n, d, Len(n)) ELSE <<>>

\* main's discovery: the file itself when --input is a file with a supported
\* suffix, else every path under it that some "*<ext>" pattern matches
DiscoveredImages(inp) ==
    IF inp.kind = "file" /\ \E f \in inp.files : LowerStr(TextSuffix(f.path)) \in SUPPORTED_IMAGE_EXTS
    THEN {f.path : f \in inp.files}
    ELSE IF inp.kind = "file" THEN {}
    ELSE {f.path : f \in {x \in inp.files :
            \E ext \in SUPPORTED_IMAGE_EXTS : EndsWith(PathName(x.path), ext)}}

\* the orders in which a set can be listed
Enumerations(S) ==
    IF S = {} THEN {<<>>}
    ELSE {q \in [1..Cardinality(S) -> S] : \A i, j \in 1..Cardinality(S) : i # j => q[i] # q[j]}

\* process_one's paths under out_dir
TmpPath(p) == <<"out/.intermediate/">> \o PathStem(p) \o <<".uastc.ktx2">>
OutPath(p) == <<"out/">> \o PathStem(p) \o <<".ktx2">>

ImageOf(inp, p) == (CHOOSE f \in inp.files : f.path = p).image

\* process_one: the job goes on to stage 2 only when stage 1 returned 0
after_toktx(rc) == IF rc # 0 THEN "returned" ELSE "stage2"

\* process_one: if not opts.keep_temp and not opts.dry_run
should_unlink_ignores_dry_run(o) == ~o.keep_temp

should_unlink(o) == ~o.keep_temp /\ ~o.dry_run

\* main: if rc != 0: any_err = True
note_result_last_wins(err, rc) == rc # 0

note_result(err, rc) == err \/ rc # 0

\* main: sys.exit(2) if any_err, else the normal end of the process
batch_status(err) == IF err THEN 2 ELSE 0

Remove(f, k) == [x \in DOMAIN f \ {k} |-> f[x]]
Put(f, k, v) == [x \in DOMAIN f \cup {k} |-> IF x = k THEN v ELSE f[x]]

NoOpts == [albedo_target |-> "None", keep_temp |-> FALSE, dry_run |-> FALSE, jobs |-> 0]
EmptyFs == [x \in {} |-> x]

----------------------------------------------------------------------------
(* Values of the variables a specification does not use *)

SuffixIdle ==
    /\ spc = "idle"
    /\ stem = <<>>
    /\ by_suffix = NoRole

GltfIdle ==
    /\ gpc = "idle"
    /\ gltf = NoDoc
    /\ gltf_roles = <<>>
    /\ img = <<>>
    /\ role = NoRole

TargetIdle ==
    /\ tpc = "idle"
    /\ trole = NoRole
    /\ albedo_target = "None"
    /\ image = NoImage
    /\ PIL_OK = FALSE
    /\ target = NoTarget

ShaderIdle ==
    /\ shpc = "idle"
    /\ shader_dir = [exists |-> FALSE, entries |-> {}]
    /\ glslc_env = [user |-> "unset", env |-> "unset", sdk |-> FALSE, path |-> FALSE]
    /\ glslc = NoGlslc
    /\ sources = <<>>
    /\ next_src = 0
    /\ failed = 0
    /\ invocations = <<>>
    /\ sh_exit = Running

BatchIdle ==
    /\ bpc = "idle"
    /\ argv = [albedo_target |-> "unset", keep_temp |-> FALSE, dry_run |-> FALSE, jobs |-> 0]
    /\ tools = [toktx |-> FALSE, ktx |-> FALSE]
    /\ input = [kind |-> "dir", files |-> {}]
    /\ opts = NoOpts
    /\ rx = <<>>
    /\ img_files = <<>>
    /\ jobs = <<>>
    /\ fs = EmptyFs
    /\ acc = {}
    /\ reported = <<>>
    /\ any_err = FALSE
    /\ exit_st = Running

----------------------------------------------------------------------------
(* Input universes of role resolution *)

MaxMaterials == 2       \* materials in a document
MaxRefs == 2            \* texture references in a document

U_dir_normal == <<"t","/","w","_","n","o","r","m","a","l",".","p","n","g">>
U_case_normal == <<"W","_","N","o","r","m","a","l",".","p","n","g">>
U_plain == <<"b",".","p","n","g">>

\* images[] and textures[] of the documents: two URIs with one basename; two
\* basenames; a texture whose image has no uri; textures whose source is out of
\* range or absent
Layouts ==
    { [images |-> <<U_dir_normal, U_case_normal>>, textures |-> << <<0>>, <<1>> >>],
      [images |-> <<U_plain, U_dir_normal>>,       textures |-> << <<1>>, <<0>> >>],
      [images |-> <<U_dir_normal, NoUri, <<>> >>,  textures |-> << <<0>>, <<1>> >>],
      [images |-> <<U_plain>>,                     textures |-> << <<1>>, NoSource >>] }

SlotIdx == {NoIndex, <<0>>, <<1>>}

RefCount(mat) == Cardinality({s \in Slots : mat[s] # NoIndex})

MaterialsWith(k) == {mat \in [Slots -> SlotIdx] : RefCount(mat) <= k}

\* material lists of at most n materials and k texture references in all
RECURSIVE MaterialLists(_, _)
MaterialLists(n, k) ==
    IF n = 0 THEN {<<>>}
    ELSE {<<>>} \cup
         UNION { {<<mat>> \o rest : rest \in MaterialLists(n - 1, k - RefCount(mat))}
                 : mat \in MaterialsWith(k) }

Docs ==
    { [kind |-> "gltf", images |-> l.images, textures |-> l.textures, materials |-> ms]
        : l \in Layouts, ms \in MaterialLists(MaxMaterials, MaxRefs) }

\* no --gltf; a path that does not exist; a path that is no .gltf file
OtherGltfArgs ==
    { NoDoc,
      [kind |-> "missing", images |-> <<>>, textures |-> <<>>, materials |-> <<>>],
      [kind |-> "glb", images |-> <<U_plain>>, textures |-> << <<0>> >>,
       materials |-> << [s \in Slots |-> <<0>>] >>] }

Assets ==
    { <<"i","n","/","w","_","n","o","r","m","a","l",".","p","n","g">>,
      <<"i","n","/","b",".","p","n","g">>,
      <<"c","_","n","o","r","m","a","l",".","p","n","g">> }

\* a rule set under which the stem "b" is a metallic-roughness name
CustomCsv == [r \in Roles |-> IF r = "mr" THEN <<"b">> ELSE <<"_","a">>]

InitGltf ==
    /\ gpc = "start"
    /\ gltf \in Docs \cup OtherGltfArgs
    /\ suffix_csv \in {DEFAULT_SUFFIX_CSV, CustomCsv}
    /\ gltf_roles = <<>>
    /\ img = <<>>
    /\ role = NoRole
    /\ SuffixIdle
    /\ TargetIdle
    /\ ShaderIdle
    /\ BatchIdle

\* main: gltf_roles = parse_gltf_roles(Path(opts.gltf)) if opts.gltf else {}
ParseGltf ==
    /\ gpc = "start"
    /\ gltf_roles' = IF gltf.kind = "none" THEN <<>> ELSE parse_gltf_roles(gltf)
    /\ gpc' = "parsed"
    /\ UNCHANGED <<gltf, img, role, suffix_csv, suffixVars, targetVars, shaderVars, batchVars>>

\* role = decide_role_for_path(img) for one discovered image
DecideRole ==
    /\ gpc = "parsed"
    /\ \E p \in Assets :
        /\ img' = p
        /\ role' = decide_role_for_path(p, gltf_roles, BuildRx(suffix_csv))
    /\ gpc' = "resolved"
    /\ UNCHANGED <<gltf, gltf_roles, suffix_csv, suffixVars, targetVars, shaderVars, batchVars>>

NextGltf == ParseGltf \/ DecideRole

SpecGltf == InitGltf /\ [][NextGltf]_vars

\* ---- C1 ----
HintProposals == IF gltf.kind = "gltf" THEN DocProposals(gltf) ELSE <<>>

RoleMap(rs) == [u \in Keys(rs) |-> Get(rs, u)]

Reordered(props, f) == [i \in 1..Len(props) |-> props[f[i]]]

Orders(props) == Permutations(1..Len(props))

\* C1 (as claimed): whatever the order in which the same (URI, role) proposals are
\* fed to mark, the final URI -> role mapping is the same.
C1_OrderIndependent ==
    gpc = "parsed" =>
        \A f \in Orders(HintProposals) :
            RoleMap(MergeAll(<<>>, Reordered(HintProposals, f))) = RoleMap(gltf_roles)

ProposedRoles(props, u) == {props[i].role : i \in {j \in 1..Len(props) : props[j].uri = u}}

TopRoles(props, u) ==
    {r \in ProposedRoles(props, u) :
        \A q \in ProposedRoles(props, u) : PrioOf(q) <= PrioOf(r)}

\* C1 (amended): under every order of the same proposals the mapping has the same
\* keys and every URI gets a role of the same, highest proposed priority; the role
\* itself is the same whenever the URI's highest-priority proposals name one role.
C1_OrderIndependentUpToTies ==
    gpc = "parsed" =>
        \A f \in Orders(HintProposals) :
            LET other == MergeAll(<<>>, Reordered(HintProposals, f))
            IN  /\ Keys(other) = Keys(gltf_roles)
                /\ \A u \in Keys(gltf_roles) :
                    /\ Get(gltf_roles, u) \in TopRoles(HintProposals, u)
                    /\ PrioOf(Get(other, u)) = PrioOf(Get(gltf_roles, u))
                    /\ (Cardinality(TopRoles(HintProposals, u)) = 1
                            => Get(other, u) = Get(gltf_roles, u))

\* a URI proposed as base colour and as metallic-roughness resolved to albedo
C1_Witness ==
    /\ gpc = "parsed"
    /\ \E u \in Keys(gltf_roles) :
        /\ {"albedo", "mr"} \subseteq ProposedRoles(HintProposals, u)
        /\ Get(gltf_roles, u) = "albedo"

\* ---- C2 ----
MatchingHints == {i \in 1..Len(gltf_roles) :
                    LowerStr(PathName(gltf_roles[i].uri)) = LowerStr(PathName(img))}

SuffixRoleOfImg == detect_role_by_suffix(PathStem(img), BuildRx(suffix_csv))

\* C2: decide_role_for_path returns one of the five roles: the role of a hint whose
\* basename equals the asset's file name when there is one, whatever the suffix
\* says; otherwise the suffix matcher's role; otherwise albedo.
C2_ResolverPrecedence ==
    gpc = "resolved" =>
        /\ role \in Roles
        /\ MatchingHints # {} => role \in {gltf_roles[i].role : i \in MatchingHints}
        /\ (MatchingHints = {} /\ SuffixRoleOfImg # NoRole) => role = SuffixRoleOfImg
        /\ (MatchingHints = {} /\ SuffixRoleOfImg = NoRole) => role = "albedo"

\* a hint overrode a suffix that names another role
C2_Witness ==
    /\ gpc = "resolved"
    /\ MatchingHints # {}
    /\ SuffixRoleOfImg \notin {NoRole, role}

\* ---- C3 ----
MatchingProposals ==
    {i \in 1..Len(HintProposals) :
        LowerStr(PathName(HintProposals[i].uri)) = LowerStr(PathName(img))}

\* C3: when some material slot references an image whose basename equals the
\* asset's file name, the resolved role has the highest priority among all slots
\* referencing an image of that basename.
C3_HintIsHighestPriority ==
    (gpc = "resolved" /\ MatchingProposals # {}) =>
        \A i \in MatchingProposals : PrioOf(HintProposals[i].role) <= PrioOf(role)

----------------------------------------------------------------------------
(* Input universes of the target policy *)

Images ==
    [decodable : BOOLEAN, bandA : BOOLEAN, transparency : BOOLEAN,
     alpha : {Opaque, <<0, 255>>, <<0, 0>>}]

\* the four --albedo-target choices and a value outside them
AlbedoTargets == {"auto", "bc1", "bc3", "bc7", "etc2"}

InitTargets ==
    /\ tpc = "start"
    /\ trole \in Roles
    /\ albedo_target \in AlbedoTargets
    /\ image \in Images
    /\ PIL_OK \in BOOLEAN
    /\ target = NoTarget
    /\ suffix_csv = DEFAULT_SUFFIX_CSV
    /\ SuffixIdle
    /\ GltfIdle
    /\ ShaderIdle
    /\ BatchIdle

DecideTargets ==
    /\ tpc = "start"
    /\ target' = decide_targets(trole, albedo_target, image, PIL_OK)
    /\ tpc' = "done"
    /\ UNCHANGED <<trole, albedo_target, image, PIL_OK, suffix_csv, suffixVars, gltfVars, shaderVars, batchVars>>

NextTargets == DecideTargets

SpecTargets == InitTargets /\ [][NextTargets]_vars

\* ---- C4 ----
has_alpha == has_meaningful_alpha(image, PIL_OK)

\* the table of the specification, row by row
TableFormat ==
    CASE trole = "normal" -> "bc5"
      [] trole \in {"mr", "occlusion"} -> "bc7"
      [] trole \in {"albedo", "emissive"} /\ albedo_target = "auto" /\ has_alpha -> "bc3"
      [] trole \in {"albedo", "emissive"} /\ albedo_target = "auto" /\ ~has_alpha -> "bc1"
      [] trole \in {"albedo", "emissive"} /\ albedo_target \in {"bc1", "bc3", "bc7"}
            -> albedo_target
      [] OTHER -> "bc7"

----------------------------------------------------------------------------
(* Shader batch: inputs and steps *)

DirEntries ==
    { [path |-> << <<"b",".","f","r","a","g">> >>, is_file |-> TRUE],
      [path |-> << <<"a",".","v","e","r","t">> >>, is_file |-> TRUE],
      [path |-> << <<"B",".","M","E","S","H">> >>, is_file |-> TRUE],
      [path |-> << <<"a">>, <<"z",".","c","o","m","p">> >>, is_file |-> TRUE],
      [path |-> << <<"n","o","t","e","s",".","t","x","t">> >>, is_file |-> TRUE],
      [path |-> << <<"x",".","g","e","o","m">> >>, is_file |-> FALSE] }

GlslcEnvs ==
    [user : {"unset", "good", "bad"}, env : {"unset", "bad"}, sdk : BOOLEAN,
     path : BOOLEAN]

RcValues == {0, 1}

InitShader ==
    /\ shpc = "start"
    /\ shader_dir \in [exists : {TRUE}, entries : SUBSET DirEntries]
                        \cup {[exists |-> FALSE, entries |-> {}]}
    /\ glslc_env \in GlslcEnvs
    /\ glslc = NoGlslc
    /\ sources = <<>>
    /\ next_src = 0
    /\ failed = 0
    /\ invocations = <<>>
    /\ sh_exit = Running
    /\ suffix_csv = DEFAULT_SUFFIX_CSV
    /\ SuffixIdle
    /\ GltfIdle
    /\ TargetIdle
    /\ BatchIdle

\* main up to the loop: directory check, compiler lookup, source discovery
ShaderStart ==
    /\ shpc = "start"
    /\ IF ~shader_dir.exists
       THEN /\ sh_exit' = [status |-> 2, how |-> "return"]
            /\ shpc' = "exited"
            /\ UNCHANGED <<glslc, sources, next_src>>
       ELSE LET g == find_glslc(glslc_env)
                srcs == collect_sources(shader_dir)
            IN  /\ glslc' = g
                /\ IF ~g.found
                   THEN /\ sh_exit' = [status |-> 1, how |-> "sys.exit"]
                        /\ shpc' = "exited"
                        /\ UNCHANGED <<sources, next_src>>
                   ELSE /\ sources' = srcs
                        /\ IF srcs = <<>>
                           THEN /\ sh_exit' = [status |-> 0, how |-> "return"]
                                /\ shpc' = "exited"
                                /\ UNCHANGED next_src
                           ELSE /\ shpc' = "compile"
                                /\ next_src' = 1
                                /\ UNCHANGED sh_exit
    /\ UNCHANGED <<shader_dir, glslc_env, failed, invocations>>
    /\ UNCHANGED <<suffix_csv, suffixVars, gltfVars, targetVars, batchVars>>

\* one loop iteration: compile_one runs the compiler and returns its exit status;
\* a compiler that cannot be started makes subprocess.run raise, which ends main
CompileOne ==
    /\ shpc = "compile"
    /\ next_src <= Len(sources)
    /\ IF glslc.launchable
       THEN \E rc \in RcValues :
            /\ invocations' = Append(invocations, [src |-> sources[next_src], rc |-> rc])
            /\ failed' = IF rc # 0 THEN failed + 1 ELSE failed
            /\ next_src' = next_src + 1
            /\ UNCHANGED <<shpc, sh_exit>>
       ELSE /\ sh_exit' = [status |-> 1, how |-> "exception"]
            /\ shpc' = "exited"
            /\ UNCHANGED <<invocations, failed, next_src>>
    /\ UNCHANGED <<shader_dir, glslc_env, glslc, sources>>
    /\ UNCHANGED <<suffix_csv, suffixVars, gltfVars, targetVars, batchVars>>

\* after the loop
ShaderFinish ==
    /\ shpc = "compile"
    /\ next_src > Len(sources)
    /\ sh_exit' = [status |-> ShaderReturn(failed), how |-> "return"]
    /\ shpc' = "exited"
    /\ UNCHANGED <<shader_dir, glslc_env, glslc, sources, next_src, failed, invocations>>
    /\ UNCHANGED <<suffix_csv, suffixVars, gltfVars, targetVars, batchVars>>

NextShader == ShaderStart \/ CompileOne \/ ShaderFinish

SpecShader == InitShader /\ [][NextShader]_vars

\* ---- C8 ----
Discovered ==
    {e.path : e \in {x \in shader_dir.entries :
        x.is_file /\ \E ext \in SHADER_EXTS : LowerStr(Suffix(x.path)) = ext}}

\* once per discovered source, in sorted order
InvokedOncePerSourceInOrder ==
    /\ Len(invocations) = Cardinality(Discovered)
    /\ {invocations[i].src : i \in 1..Len(invocations)} = Discovered
    /\ \A i, j \in 1..Len(invocations) :
        i < j => PathLess(invocations[i].src, invocations[j].src)

SomeInvocationFailed == \E i \in 1..Len(invocations) : invocations[i].rc # 0

\* C8 (as claimed): exit status 2 with no lookup and no compiler run when the
\* directory is missing; 0 when no sources are found; otherwise one compiler run
\* per source in sorted order and status 1 iff some run returned non-zero, else 0.
C8_ShaderExitStatus ==
    shpc = "exited" =>
        /\ ~shader_dir.exists =>
            sh_exit.status = 2 /\ invocations = <<>> /\ glslc = NoGlslc
        /\ (shader_dir.exists /\ Discovered = {}) => sh_exit.status = 0
        /\ (shader_dir.exists /\ Discovered # {}) =>
            /\ InvokedOncePerSourceInOrder
            /\ sh_exit.status = 1 <=> SomeInvocationFailed
            /\ sh_exit.status \in {0, 1}

CompilerUsable == find_glslc(glslc_env).found /\ find_glslc(glslc_env).launchable

\* C8 (amended): as claimed whenever the compiler is found and can be started; a
\* failed lookup ends the process with status 1 before discovery, with no run,
\* and a compiler that cannot be started ends it with status 1 at the first source.
C8_ShaderExitStatusGivenCompiler ==
    shpc = "exited" =>
        /\ ~shader_dir.exists =>
            sh_exit.status = 2 /\ invocations = <<>> /\ glslc = NoGlslc
        /\ (shader_dir.exists /\ CompilerUsable /\ Discovered = {}) => sh_exit.status = 0
        /\ (shader_dir.exists /\ CompilerUsable /\ Discovered # {}) =>
            /\ InvokedOncePerSourceInOrder
            /\ sh_exit.status = 1 <=> SomeInvocationFailed
            /\ sh_exit.status \in {0, 1}
        /\ (shader_dir.exists /\ ~find_glslc(glslc_env).found) =>
            sh_exit = [status |-> 1, how |-> "sys.exit"] /\ invocations = <<>>
        /\ (shader_dir.exists /\ find_glslc(glslc_env).found /\ ~CompilerUsable) =>
            /\ invocations = <<>>
            /\ Discovered = {} => sh_exit.status = 0
            /\ Discovered # {} => sh_exit = [status |-> 1, how |-> "exception"]

\* three sources compiled, the first failed, the later ones still ran
C8_Witness ==
    /\ shpc = "exited"
    /\ Len(invocations) = 3
    /\ invocations[1].rc # 0 /\ invocations[3].rc = 0
    /\ sh_exit.status = 1

----------------------------------------------------------------------------
(* Texture batch: inputs and steps *)

MaxImages == 2          \* entries under the input directory
MaxWorkers == 2         \* largest -j value

OpaqueRgb == [decodable |-> TRUE, bandA |-> FALSE, transparency |-> FALSE, alpha |-> Opaque]
Translucent == [decodable |-> TRUE, bandA |-> TRUE, transparency |-> FALSE, alpha |-> <<0, 255>>]

F_wall_albedo == <<"i","n","/","w","a","l","l","_","a","l","b","e","d","o",".","p","n","g">>
F_wall_normal == <<"i","n","/","w","a","l","l","_","n","o","r","m","a","l",".","p","n","g">>
F_sub_wall_albedo ==
    <<"i","n","/","s","u","b","/","w","a","l","l","_","a","l","b","e","d","o",".","t","g","a">>
F_readme == <<"i","n","/","r","e","a","d","m","e",".","t","x","t">>

InputFiles ==
    { [path |-> F_wall_albedo, image |-> OpaqueRgb],
      [path |-> F_wall_normal, image |-> OpaqueRgb],
      [path |-> F_sub_wall_albedo, image |-> Translucent],
      [path |-> F_readme, image |-> NoImage] }

Inputs ==
    {[kind |-> "dir", files |-> S] : S \in {T \in SUBSET InputFiles : Cardinality(T) <= MaxImages}}
    \cup {[kind |-> "file", files |-> {f}] : f \in InputFiles}

\* a scene document whose only material uses wall_albedo.png as its normal map
BatchDoc ==
    [kind |-> "gltf",
     images |-> << <<"t","e","x","/","w","a","l","l","_","a","l","b","e","d","o",".","p","n","g">> >>,
     textures |-> << <<0>> >>,
     materials |-> << [s \in Slots |-> IF s = "normalTexture" THEN <<0>> ELSE NoIndex] >>]

Argvs ==
    [albedo_target : {"unset", "auto"}, keep_temp : BOOLEAN, dry_run : BOOLEAN,
     jobs : 1..MaxWorkers]

InitBatch ==
    /\ bpc = "start"
    /\ argv \in Argvs
    /\ tools \in [toktx : BOOLEAN, ktx : BOOLEAN]
    /\ input \in Inputs
    /\ gltf \in {NoDoc, BatchDoc}
    /\ suffix_csv = DEFAULT_SUFFIX_CSV
    /\ PIL_OK = TRUE
    /\ opts = NoOpts
    /\ rx = <<>>
    /\ gltf_roles = <<>>
    /\ img_files = <<>>
    /\ jobs = <<>>
    /\ fs = EmptyFs
    /\ acc = {}
    /\ reported = <<>>
    /\ any_err = FALSE
    /\ exit_st = Running
    /\ gpc = "idle" /\ img = <<>> /\ role = NoRole
    /\ tpc = "idle" /\ trole = NoRole /\ albedo_target = "None"
    /\ image = NoImage /\ target = NoTarget
    /\ SuffixIdle
    /\ ShaderIdle

batchRest == <<suffix_csv, suffixVars, shaderVars, gpc, img, role,
               tpc, trole, albedo_target, image, PIL_OK, target, gltf, argv, tools, input>>

\* main up to the pool: arguments, the two tool checks, the hint document, discovery
MainStart ==
    /\ bpc = "start"
    /\ opts' = parse_args(argv)
    /\ IF ~tools.toktx \/ ~tools.ktx
       THEN /\ exit_st' = [status |-> 1, how |-> "sys.exit"]
            /\ bpc' = "exited"
            /\ UNCHANGED <<rx, gltf_roles, img_files>>
       ELSE /\ rx' = BuildRx(suffix_csv)
            /\ gltf_roles' = IF gltf.kind = "none" THEN <<>> ELSE parse_gltf_roles(gltf)
            /\ \E found \in Enumerations(DiscoveredImages(input)) :
                /\ img_files' = found
                /\ IF found = <<>>
                   THEN exit_st' = [status |-> 1, how |-> "sys.exit"] /\ bpc' = "exited"
                   ELSE UNCHANGED exit_st /\ bpc' = "submit"
    /\ UNCHANGED <<jobs, fs, acc, reported, any_err>>
    /\ UNCHANGED batchRest

\* one iteration of the submit loop
Submit ==
    /\ bpc = "submit"
    /\ \E p \in {img_files[Len(jobs) + 1]} :
        \E r \in {decide_role_for_path(p, gltf_roles, rx)} :
            jobs' = Append(jobs, [img |-> p, role |-> r, pc |-> "queued", rc |-> 0,
                                  target |-> NoTarget, tmp_ktx2 |-> <<>>,
                                  out_ktx2 |-> <<>>, cmds |-> <<>>])
    /\ bpc' = IF Len(jobs) + 1 = Len(img_files) THEN "collect" ELSE "submit"
    /\ UNCHANGED <<opts, rx, gltf_roles, img_files, fs, acc, reported, any_err, exit_st>>
    /\ UNCHANGED batchRest

Busy == {k \in 1..Len(jobs) : jobs[k].pc \in {"stage1", "stage2", "unlink"}}

\* the pool runs the oldest queued job as soon as fewer than max_workers are running
CanStart(j) ==
    /\ jobs[j].pc = "queued"
    /\ \A k \in 1..(j - 1) : jobs[k].pc # "queued"
    /\ Cardinality(Busy) < opts.jobs

\* a pool thread takes the oldest queued job; process_one up to the first tool run:
\* the job's two paths (both depend on the image's stem only) and its target
JobStart(j) ==
    /\ CanStart(j)
    /\ jobs' = [jobs EXCEPT ![j].pc = "stage1",
                    ![j].tmp_ktx2 = TmpPath(jobs[j].img),
                    ![j].out_ktx2 = OutPath(jobs[j].img),
                    ![j].target = decide_targets(jobs[j].role, opts.albedo_target,
                                                 ImageOf(input, jobs[j].img), PIL_OK)]
    /\ UNCHANGED <<bpc, opts, rx, gltf_roles, img_files, fs, acc, reported, any_err, exit_st>>
    /\ UNCHANGED batchRest

\* run_cmd(toktx ...): the encoder writes the intermediate file
JobStage1(j) ==
    /\ jobs[j].pc = "stage1"
    /\ LET tmp == jobs[j].tmp_ktx2
       IN  IF opts.dry_run
           THEN /\ jobs' = [jobs EXCEPT ![j].pc = after_toktx(0),
                                ![j].cmds = Append(@, [tool |-> "toktx", rc |-> 0, ran |-> FALSE])]
                /\ UNCHANGED <<fs, acc>>
           ELSE \E rc \in RcValues :
                /\ jobs' = [jobs EXCEPT ![j].pc = after_toktx(rc),
                                ![j].rc = rc,
                                ![j].cmds = Append(@, [tool |-> "toktx", rc |-> rc, ran |-> TRUE])]
                /\ IF rc = 0
                   THEN /\ fs' = Put(fs, tmp, [src |-> jobs[j].img, oetf |-> jobs[j].target.oetf,
                                               bc |-> "uastc"])
                        /\ acc' = acc \cup {[job |-> j, file |-> tmp, op |-> "write"]}
                   ELSE UNCHANGED <<fs, acc>>
    /\ UNCHANGED <<bpc, opts, rx, gltf_roles, img_files, reported, any_err, exit_st>>
    /\ UNCHANGED batchRest

\* run_cmd(ktx transcode ...): the transcoder reads the intermediate file and writes
\* the output file; it cannot succeed on an intermediate file that is gone
JobStage2(j) ==
    /\ jobs[j].pc = "stage2"
    /\ LET tmp == jobs[j].tmp_ktx2
           out == jobs[j].out_ktx2
           done == IF should_unlink(opts) THEN "unlink" ELSE "returned"
       IN  IF opts.dry_run
           THEN /\ jobs' = [jobs EXCEPT ![j].pc = done,
                                ![j].cmds = Append(@, [tool |-> "ktx", rc |-> 0, ran |-> FALSE])]
                /\ UNCHANGED <<fs, acc>>
           ELSE \E rc \in IF tmp \in DOMAIN fs THEN RcValues ELSE RcValues \ {0} :
                /\ jobs' = [jobs EXCEPT ![j].pc = IF rc # 0 THEN "returned" ELSE done,
                                ![j].rc = rc,
                                ![j].cmds = Append(@, [tool |-> "ktx", rc |-> rc, ran |-> TRUE])]
                /\ IF rc = 0
                   THEN /\ fs' = Put(fs, out, [src |-> fs[tmp].src, oetf |-> fs[tmp].oetf,
                                               bc |-> jobs[j].target.bc])
                        /\ acc' = acc \cup {[job |-> j, file |-> tmp, op |-> "read"],
                                            [job |-> j, file |-> out, op |-> "write"]}
                   ELSE /\ UNCHANGED fs
                        /\ acc' = acc \cup {[job |-> j, file |-> tmp, op |-> "read"]}
    /\ UNCHANGED <<bpc, opts, rx, gltf_roles, img_files, reported, any_err, exit_st>>
    /\ UNCHANGED batchRest

\* tmp_ktx2.unlink(), any exception swallowed; return 0
JobUnlink(j) ==
    /\ jobs[j].pc = "unlink"
    /\ LET tmp == jobs[j].tmp_ktx2
       IN  /\ fs' = IF tmp \in DOMAIN fs THEN Remove(fs, tmp) ELSE fs
           /\ acc' = acc \cup {[job |-> j, file |-> tmp, op |-> "delete"]}
    /\ jobs' = [jobs EXCEPT ![j].pc = "returned", ![j].rc = 0]
    /\ UNCHANGED <<bpc, opts, rx, gltf_roles, img_files, reported, any_err, exit_st>>
    /\ UNCHANGED batchRest

Reported == {reported[i].job : i \in 1..Len(reported)}

\* as_completed yields a future once it is done, each future once
CanReport(j) == bpc = "collect" /\ jobs[j].pc = "returned" /\ j \notin Reported

\* one iteration of the as_completed loop: a finished future, its line, any_err
Report(j) ==
    /\ CanReport(j)
    /\ reported' = Append(reported, [job |-> j, rc |-> jobs[j].rc])
    /\ any_err' = note_result(any_err, jobs[j].rc)
    /\ UNCHANGED <<bpc, opts, rx, gltf_roles, img_files, jobs, fs, acc, exit_st>>
    /\ UNCHANGED batchRest

\* as_completed is exhausted: the pool shuts down and the process ends
MainExit ==
    /\ bpc = "collect"
    /\ Reported = 1..Len(jobs)
    /\ exit_st' = [status |-> batch_status(any_err), how |-> "pool"]
    /\ bpc' = "exited"
    /\ UNCHANGED <<opts, rx, gltf_roles, img_files, jobs, fs, acc, reported, any_err>>
    /\ UNCHANGED batchRest

PoolStart == \E j \in 1..Len(jobs) : JobStart(j)
PoolStage1 == \E j \in 1..Len(jobs) : JobStage1(j)
PoolStage2 == \E j \in 1..Len(jobs) : JobStage2(j)
PoolUnlink == \E j \in 1..Len(jobs) : JobUnlink(j)
ReportNext == \E j \in 1..Len(jobs) : Report(j)

NextBatch ==
    \/ MainStart
    \/ Submit
    \/ PoolStart
    \/ PoolStage1
    \/ PoolStage2
    \/ PoolUnlink
    \/ ReportNext
    \/ MainExit

SpecBatch == InitBatch /\ [][NextBatch]_vars

\* Once the jobs are submitted every step is one a running thread takes by itself:
\* a pool thread picking up or running a job, a tool run that ends, as_completed
\* handing over a finished future, main leaving the with block.
PoolStep == PoolStart \/ PoolStage1 \/ PoolStage2 \/ PoolUnlink \/ ReportNext \/ MainExit

\* the runs without a scene document and with the default --albedo-target; neither
\* is read by the pool or by the as_completed loop
InitBatchPlain ==
    /\ InitBatch
    /\ gltf = NoDoc
    /\ argv.albedo_target = "unset"

SpecBatchFair == InitBatchPlain /\ [][NextBatch]_vars /\ WF_vars(PoolStep)

\* ---- C6 ----
WallScenario ==
    /\ input = [kind |-> "dir",
                files |-> {f \in InputFiles : f.path \in {F_wall_albedo, F_wall_normal}}]
    /\ gltf = NoDoc
    /\ tools.toktx /\ tools.ktx

JobTargets == {[img |-> jobs[j].img, target |-> jobs[j].target] : j \in 1..Len(jobs)}

AllStagesSucceeded ==
    \A j \in 1..Len(jobs) :
        Len(jobs[j].cmds) = 2 /\ \A i \in 1..2 : jobs[j].cmds[i].rc = 0

WallOutcome(albedo_format) ==
    /\ Len(jobs) = 2
    /\ JobTargets =
        { [img |-> F_wall_albedo, target |-> [bc |-> albedo_format, oetf |-> "srgb"]],
          [img |-> F_wall_normal, target |-> [bc |-> "bc5", oetf |-> "linear"]] }
    /\ AllStagesSucceeded => exit_st.status = 0

\* C6 (as claimed): with no --albedo-target given the policy is auto, so the batch
\* over wall_albedo.png and wall_normal.png runs two jobs, (bc1, srgb) and
\* (bc5, linear), and ends with status 0 when every stage succeeded.
C6_WallScenarioDefaultIsAuto ==
    (bpc = "exited" /\ WallScenario /\ argv.albedo_target = "unset") => WallOutcome("bc1")

\* C6 (amended): the default policy is bc7, so the default run gives wall_albedo.png
\* (bc7, srgb); (bc1, srgb) is what --albedo-target auto gives; the rest as claimed.
C6_WallScenarioDefaultIsBc7 ==
    (bpc = "exited" /\ WallScenario) =>
        /\ argv.albedo_target = "unset" => WallOutcome("bc7")
        /\ argv.albedo_target = "auto" => WallOutcome("bc1")

\* the default run of the scenario ended with every stage run and successful
C6_Witness ==
    /\ bpc = "exited" /\ WallScenario /\ argv.albedo_target = "unset"
    /\ ~argv.dry_run
    /\ AllStagesSucceeded
    /\ exit_st = [status |-> 0, how |-> "pool"]

\* ---- C7 ----
SupportedInputs ==
    IF input.kind = "file"
    THEN {f.path : f \in {x \in input.files :
            LowerStr(TextSuffix(x.path)) \in SUPPORTED_IMAGE_EXTS}}
    ELSE {f.path : f \in {x \in input.files :
            \E ext \in SUPPORTED_IMAGE_EXTS : EndsWith(x.path, ext)}}

ReportsOf(j) == {i \in 1..Len(reported) : reported[i].job = j}

\* every discovered image has exactly one job; a job is reported at most once, after
\* it returned, with its own exit code; while a job is unreported some job can
\* start, run on or be reported; the process ends only after every job returned and
\* was reported, with status 2 iff some job returned non-zero and 0 otherwise
BatchOutcomeSoFar ==
    /\ \A j \in 1..Len(jobs) :
        /\ Cardinality(ReportsOf(j)) <= 1
        /\ \A i \in ReportsOf(j) : jobs[j].pc = "returned" /\ reported[i].rc = jobs[j].rc
    /\ (bpc = "collect" /\ Reported # 1..Len(jobs)) =>
        \E j \in 1..Len(jobs) : CanStart(j) \/ j \in Busy \/ CanReport(j)
    /\ (bpc = "collect" \/ (bpc = "exited" /\ exit_st.how = "pool")) =>
        /\ Len(jobs) = Cardinality(SupportedInputs)
        /\ {jobs[j].img : j \in 1..Len(jobs)} = SupportedInputs
    /\ (bpc = "exited" /\ exit_st.how = "pool") =>
        /\ \A j \in 1..Len(jobs) : jobs[j].pc = "returned" /\ Cardinality(ReportsOf(j)) = 1
        /\ exit_st.status = 2 <=> \E j \in 1..Len(jobs) : jobs[j].rc # 0
        /\ exit_st.status \in {0, 2}

AllReportedAndExited ==
    /\ bpc = "exited" /\ exit_st.how = "pool"
    /\ \A j \in 1..Len(jobs) : jobs[j].pc = "returned" /\ Cardinality(ReportsOf(j)) = 1

\* C7: every discovered image gets exactly one job; every job runs to completion
\* and is reported exactly once with its own exit code, whatever the other jobs
\* return and in whatever order they finish; the process then ends with status 2
\* iff some job returned non-zero and with 0 otherwise.
C7_BatchOutcome ==
    /\ []BatchOutcomeSoFar
    /\ (bpc = "collect") ~> AllReportedAndExited

\* two jobs, the first reported one failed, the other still ran both stages and
\* was reported OK, and the process ended with status 2
C7_Witness ==
    /\ bpc = "exited"
    /\ Len(reported) = 2
    /\ reported[1].rc # 0 /\ reported[2].rc = 0
    /\ Len(jobs[reported[2].job].cmds) = 2
    /\ exit_st.status = 2

\* ---- C9 ----
Deleted(j) == [job |-> j, file |-> TmpPath(jobs[j].img), op |-> "delete"] \in acc

FirstFailure(cmds) ==
    IF \E i \in 1..Len(cmds) : cmds[i].rc # 0
    THEN cmds[CHOOSE i \in 1..Len(cmds) :
                cmds[i].rc # 0 /\ \A k \in 1..(i - 1) : cmds[k].rc = 0].rc
    ELSE 0

\* C9: in every job the encoder runs first and at most once, the transcoder at most
\* once and only after the encoder returned 0; the job returns the first failing
\* stage's exit code, or 0 after both succeeded; the intermediate file is deleted
\* only after both stages succeeded with keep-temp and dry-run both off.
C9_StageOrder ==
    \A j \in 1..Len(jobs) :
        LET c == jobs[j].cmds
        IN  /\ Len(c) <= 2
            /\ Len(c) >= 1 => c[1].tool = "toktx"
            /\ Len(c) = 2 => c[2].tool = "ktx" /\ c[1].rc = 0
            /\ jobs[j].pc \in {"queued", "stage1"} => c = <<>>
            /\ jobs[j].pc = "returned" =>
                /\ jobs[j].rc = FirstFailure(c)
                /\ jobs[j].rc = 0 => Len(c) = 2
                /\ jobs[j].rc # 0 => ~Deleted(j)
            /\ Deleted(j) =>
                /\ Len(c) = 2 /\ c[1].rc = 0 /\ c[2].rc = 0
                /\ ~opts.keep_temp /\ ~opts.dry_run

\* a job whose encoder succeeded and whose transcoder failed returned that code
\* and left its intermediate file; another job deleted its own
C9_Witness ==
    \E j, k \in 1..Len(jobs) :
        /\ jobs[j].pc = "returned" /\ Len(jobs[j].cmds) = 2 /\ jobs[j].rc # 0
        /\ ~Deleted(j)
        /\ jobs[k].pc = "returned" /\ Deleted(k)

\* ---- C10 ----
\* C10: a file that one job writes (its intermediate or its output file) is never
\* written, read or deleted by another job of the batch.
C10_JobsShareNoFiles ==
    \A a, b \in acc : (a.op = "write" /\ a.job # b.job) => a.file # b.file

----------------------------------------------------------------------------
(* Input universes of the suffix matcher *)

MaxStemLen == 3

StemChars == {"a", "B", "_", "-", ".", "\n"}

RECURSIVE SeqsUpTo(_, _)
SeqsUpTo(S, n) ==
    IF n = 0 THEN {<<>>}
    ELSE LET shorter == SeqsUpTo(S, n - 1)
         IN  shorter \cup {Append(s, c) : s \in {x \in shorter : Len(x) = n - 1}, c \in S}

NamedStems ==
    { <<"w","a","l","l","_","a","l","b","e","d","o">>,
      <<"w","a","l","l","_","n","o","r","m","a","l">>,
      <<"r","o","c","k","_","B","a","s","e","C","o","l","o","r">>,
      <<"_","m","r">>,
      <<"w","a","l","l","_","n","o","r","m","a","l","\n">> }

\* Path.stem of a file name is never empty
Stems == (SeqsUpTo(StemChars, MaxStemLen) \ {<<>>}) \cup NamedStems

\* CSV values a user can pass for one role: none, one token, two tokens with blanks
CsvPool == { <<>>, <<"a">>, <<"_","a",","," ","B">> }

SuffixCsvs == [Roles -> CsvPool] \cup {DEFAULT_SUFFIX_CSV}

InitSuffix ==
    /\ spc = "start"
    /\ suffix_csv \in SuffixCsvs
    /\ stem \in Stems
    /\ by_suffix = NoRole
    /\ GltfIdle
    /\ TargetIdle
    /\ ShaderIdle
    /\ BatchIdle

DetectRole ==
    /\ spc = "start"
    /\ by_suffix' = detect_role_by_suffix(stem, BuildRx(suffix_csv))
    /\ spc' = "done"
    /\ UNCHANGED <<suffix_csv, stem, gltfVars, targetVars, shaderVars, batchVars>>

NextSuffix == DetectRole

SpecSuffix == InitSuffix /\ [][NextSuffix]_vars

\* ---- C5 ----
\* The claim's matcher: role R matches when it has a configured token t such that
\* the lowercased stem ends with lowercased t and t is preceded by the start of the
\* stem or a separator.
ClaimTokenMatches(t, s) ==
    LET b == Len(s) - Len(t)
    IN  /\ b >= 0
        /\ SubSeq(s, b + 1, Len(s)) = LowerStr(t)
        /\ (b = 0 \/ s[b] \in Separators)

ClaimRoleMatches(r, st, csv) ==
    LET toks == ParseSuffixCsv(csv[r])
    IN  \E i \in 1..Len(toks) : ClaimTokenMatches(toks[i], LowerStr(st))

ClaimSuffixRole(st, csv) ==
    IF \E i \in 1..Len(RoleOrder) : ClaimRoleMatches(RoleOrder[i], st, csv)
    THEN RoleOrder[CHOOSE i \in 1..Len(RoleOrder) :
            /\ ClaimRoleMatches(RoleOrder[i], st, csv)
            /\ \A j \in 1..(i - 1) : ~ClaimRoleMatches(RoleOrder[j], st, csv)]
    ELSE NoRole

\* C5: detect_role_by_suffix returns the first role (albedo, mr, normal, occlusion,
\* emissive) having a configured token that ends the lowercased stem after a
\* start-of-stem or separator boundary, and no match otherwise.
C5_SuffixMatchExact ==
    spc = "done" => by_suffix = ClaimSuffixRole(stem, suffix_csv)

====
